---- MODULE Spec2Model ----
(***************************************************************************)
(* Model of the early-warning feature/label pipeline of                    *)
(* early_warning_methods.py: the bucketed-field parser (parse_bucket,      *)
(* add_bucket_features) and the label constructor (make_labels).           *)
(*                                                                         *)
(* Text is a sequence of one-character tokens.  The Hangul syllables of    *)
(* the source literals are written as romanised tokens:                    *)
(*   "cho" "gwa" = 초 과,  "i" "ha" = 이 하,  "gu" "gan" = 구 간,          *)
(*   "yo" "in" = 요 인,  "wi" = 위.                                        *)
(* Floating point numbers are modelled as exact rationals [num, den].     *)
(***************************************************************************)
EXTENDS FiniteSets, Integers, Sequences, TLC

(***************************************************************************)
(* Bounds of the model.                                                    *)
(***************************************************************************)
MaxLen == 3        \* longest free-form cell text enumerated exhaustively
MaxMonth == 4      \* calendar months 1..MaxMonth of the free merchant
MaxPeers == 3      \* rows of a peer table
MaxCells == 3      \* cells of a column handed to the normalisation
MaxRows == 2       \* rows of each table handed to the merger
MaxRetries == 5    \* largest retries handed to call_with_retry

(***************************************************************************)
(* Python values.                                                          *)
(***************************************************************************)
None == <<>>                       \* an optional value that is absent
Some(v) == <<v>>                   \* an optional value that is present
IsNone(o) == o = <<>>
Val(o) == o[1]

PyNone == [t |-> "None", v |-> <<>>]        \* Python None
PyNaN == [t |-> "nan", v |-> <<>>]          \* float('nan')
PdNA == [t |-> "NA", v |-> <<>>]            \* pandas.NA
PyStr(chars) == [t |-> "str", v |-> chars]  \* a str

Rat(n, d) == [num |-> n, den |-> d]         \* the number n/d, d > 0
RatEq(a, b) == a.num * b.den = b.num * a.den

(***************************************************************************)
(* Characters and the regular-expression primitives parse_bucket uses.    *)
(***************************************************************************)
Digits == {"0", "1", "2", "3", "4", "5", "6", "7", "8", "9"}

DigitVal(c) ==
  CASE c = "0" -> 0 [] c = "1" -> 1 [] c = "2" -> 2 [] c = "3" -> 3
    [] c = "4" -> 4 [] c = "5" -> 5 [] c = "6" -> 6 [] c = "7" -> 7
    [] c = "8" -> 8 [] c = "9" -> 9

IsDigitAt(s, i) == i >= 1 /\ i <= Len(s) /\ s[i] \in Digits
IsCharAt(s, i, c) == i >= 1 /\ i <= Len(s) /\ s[i] = c

\* str.strip(): drop leading and trailing whitespace
RECURSIVE lstrip(_)
lstrip(s) == IF Len(s) > 0 /\ s[1] = " " THEN lstrip(Tail(s)) ELSE s

RECURSIVE rstrip(_)
rstrip(s) ==
  IF Len(s) > 0 /\ s[Len(s)] = " " THEN rstrip(SubSeq(s, 1, Len(s) - 1)) ELSE s

strip(s) == rstrip(lstrip(s))

\* \d+ (greedy) from position i: first position after the digit run
RECURSIVE RunEnd(_, _)
RunEnd(s, i) == IF IsDigitAt(s, i) THEN RunEnd(s, i + 1) ELSE i

\* \s* from position i: first position after the whitespace
RECURSIVE SkipSpace(_, _)
SkipSpace(s, i) == IF IsCharAt(s, i, " ") THEN SkipSpace(s, i + 1) ELSE i

\* int()/float() of the digit text s[i..j-1]
RECURSIVE DigitsVal(_, _, _)
DigitsVal(s, i, j) ==
  IF j <= i THEN 0 ELSE 10 * DigitsVal(s, i, j - 1) + DigitVal(s[j - 1])

RECURSIVE Pow10(_)
Pow10(n) == IF n <= 0 THEN 1 ELSE 10 * Pow10(n - 1)

\* "pat in s"
Contains(s, pat) ==
  \E i \in 1..(Len(s) - Len(pat) + 1) : SubSeq(s, i, i + Len(pat) - 1) = pat

(***************************************************************************)
(* parse_bucket (early_warning_methods.py:66-97).                          *)
(***************************************************************************)
\* str(s) for the values a cell can hold
str(cell) == IF cell.t = "str" THEN cell.v ELSE <<"<", "N", "A", ">">>

\* re.match(r"^(\d+)_", s)
OrdinalMatch(s) == IsDigitAt(s, 1) /\ IsCharAt(s, RunEnd(s, 1), "_")
OrdinalOf(s) == IF OrdinalMatch(s) THEN Some(DigitsVal(s, 1, RunEnd(s, 1))) ELSE None

\* r"(\d+)\s*-\s*(\d+)\s*%?" matched with its first digit at position i
RangeAt(s, i) ==
  /\ IsDigitAt(s, i)
  /\ LET j == SkipSpace(s, RunEnd(s, i))
     IN  IsCharAt(s, j, "-") /\ IsDigitAt(s, SkipSpace(s, j + 1))

\* re.search of the range pattern: the leftmost match
RangeMatch(s) == \E i \in 1..Len(s) : RangeAt(s, i)
RangeStart(s) == CHOOSE i \in 1..Len(s) : RangeAt(s, i) /\ \A k \in 1..(i - 1) : ~RangeAt(s, k)

\* lo = group(1)/100, hi = group(2)/100, (lo + hi)/2
RangeMid(s) ==
  LET i == RangeStart(s)
      e == RunEnd(s, i)
      k == SkipSpace(s, SkipSpace(s, e) + 1)
  IN  Rat(DigitsVal(s, i, e) + DigitsVal(s, k, RunEnd(s, k)), 200)

\* the literals of lines 79-90
P90Over == <<"9", "0", "%", "cho", "gwa">>
P90OverSp == <<"9", "0", "%", " ", "cho", "gwa">>
P75to90 == <<"7", "5", "-", "9", "0", "%">>
P50to75 == <<"5", "0", "-", "7", "5", "%">>
P25to50 == <<"2", "5", "-", "5", "0", "%">>
P10to25 == <<"1", "0", "-", "2", "5", "%">>
P10Under == <<"1", "0", "%", "i", "ha">>
P10UnderSp == <<"1", "0", "%", " ", "i", "ha">>
PBucket1 == <<"1", "gu", "gan">>

\* the if-chain of lines 79-90: the constant of the first phrase found
PhraseMid(s) ==
  IF Contains(s, P90Over) \/ Contains(s, P90OverSp) THEN Some(Rat(95, 100))
  ELSE IF Contains(s, P75to90) THEN Some(Rat(825, 1000))
  ELSE IF Contains(s, P50to75) THEN Some(Rat(625, 1000))
  ELSE IF Contains(s, P25to50) THEN Some(Rat(375, 1000))
  ELSE IF Contains(s, P10to25) THEN Some(Rat(175, 1000))
  ELSE IF Contains(s, P10Under) \/ Contains(s, P10UnderSp) \/ Contains(s, PBucket1) THEN Some(Rat(5, 100))
  ELSE None

\* re.search(r"(\d+(\.\d+)?)\s*%?", s): the leftmost number, float(group(1))/100
BareMatch(s) == \E i \in 1..Len(s) : IsDigitAt(s, i)
BareStart(s) == CHOOSE i \in 1..Len(s) : IsDigitAt(s, i) /\ \A k \in 1..(i - 1) : ~IsDigitAt(s, k)

BareMid(s) ==
  LET i == BareStart(s)
      e == RunEnd(s, i)
      hasFrac == IsCharAt(s, e, ".") /\ IsDigitAt(s, e + 1)
      f == IF hasFrac THEN RunEnd(s, e + 1) ELSE e + 1
      nfrac == f - (e + 1)
  IN  Rat(DigitsVal(s, i, e) * Pow10(nfrac) + DigitsVal(s, e + 1, f), 100 * Pow10(nfrac))

Ret(o, m) == [ordinal |-> o, mid |-> m]

parse_bucket_bare_first(cell) ==
  IF cell.t = "None" \/ cell.t = "nan" THEN Ret(None, None)
  ELSE LET s == strip(str(cell))
           ordinal == OrdinalOf(s)
       IN  IF RangeMatch(s) THEN Ret(ordinal, Some(RangeMid(s)))
           ELSE IF BareMatch(s) THEN Ret(ordinal, Some(BareMid(s)))
           ELSE IF ~IsNone(PhraseMid(s)) THEN Ret(ordinal, PhraseMid(s))
           ELSE Ret(ordinal, None)

parse_bucket(cell) ==
  IF cell.t = "None" \/ cell.t = "nan" THEN Ret(None, None)
  ELSE LET s == strip(str(cell))
           ordinal == OrdinalOf(s)
       IN  IF RangeMatch(s) THEN Ret(ordinal, Some(RangeMid(s)))
           ELSE IF ~IsNone(PhraseMid(s)) THEN Ret(ordinal, PhraseMid(s))
           ELSE IF BareMatch(s) THEN Ret(ordinal, Some(BareMid(s)))
           ELSE Ret(ordinal, None)

(***************************************************************************)
(* add_bucket_features (early_warning_methods.py:100-111) for one column. *)
(***************************************************************************)
\* df[c].astype("string"): None and NaN become pandas.NA
astype_string(cell) == IF cell.t = "str" THEN cell ELSE PdNA

add_bucket_features_dropna(column) ==
  LET kept == SelectSeq(column, LAMBDA c : c.t = "str")
  IN  [ORD |-> [i \in 1..Len(kept) |-> parse_bucket(kept[i]).ordinal],
       MID |-> [i \in 1..Len(kept) |-> parse_bucket(kept[i]).mid]]

add_bucket_features(column) ==
  [ORD |-> [i \in 1..Len(column) |-> parse_bucket(astype_string(column[i])).ordinal],
   MID |-> [i \in 1..Len(column) |-> parse_bucket(astype_string(column[i])).mid]]

(***************************************************************************)
(* make_labels (early_warning_methods.py:174-216).                         *)
(*                                                                         *)
(* A panel is [rows, ncand, has_close]: rows is the sequence of            *)
(* merchant-month rows, ncand the number of KPI *_MID candidate columns    *)
(* present (in priority order) and has_close whether the column MCT_ME_D   *)
(* exists.  A row is [id, month, cands, close]: ENCODED_MCT, TA_YM as a    *)
(* month ordinal, the candidate cells and the MCT_ME_D cell.  *)
(* KPI values are integers in units of the midpoint grid.                  *)
(***************************************************************************)
Idx(rows) == 1..Len(rows)

\* df.sort_values([id_col, time_col])
RowLess(a, b) == a.id < b.id \/ (a.id = b.id /\ a.month < b.month)

RECURSIVE SortIdx(_, _)
SortIdx(rows, todo) ==
  IF todo = {} THEN <<>>
  ELSE LET m == CHOOSE i \in todo : \A j \in todo \ {i} :
                  RowLess(rows[i], rows[j]) \/ (~RowLess(rows[j], rows[i]) /\ i < j)
       IN  <<m>> \o SortIdx(rows, todo \ {m})

sort_values_truncated(rows) ==
  LET ord == SortIdx(rows, Idx(rows)) IN [k \in 1..(Len(rows) - 1) |-> rows[ord[k]]]

sort_values(rows) == LET ord == SortIdx(rows, Idx(rows)) IN [k \in Idx(rows) |-> rows[ord[k]]]

\* DataFrame.ffill(axis=1) / bfill(axis=1) on the candidate cells of one row
RECURSIVE ffill(_)
ffill(cs) ==
  IF Len(cs) <= 1 THEN cs
  ELSE LET head == ffill(SubSeq(cs, 1, Len(cs) - 1))
           last == cs[Len(cs)]
       IN  Append(head, IF IsNone(last) THEN head[Len(head)] ELSE last)

RECURSIVE bfill(_)
bfill(cs) ==
  IF Len(cs) <= 1 THEN cs
  ELSE LET rest == bfill(Tail(cs))
       IN  <<IF IsNone(cs[1]) THEN rest[1] ELSE cs[1]>> \o rest

\* df[kpi_candidates].ffill(axis=1).bfill(axis=1).iloc[:,0]
KpiProxyFfillOnly(cs) == ffill(cs)[1]

KpiProxy(cs) == bfill(ffill(cs))[1]

\* rows of the same merchant between positions a and b
SameIdPooled(rows, i, a, b) == {j \in a..b : j \in Idx(rows)}

SameId(rows, i, a, b) == {j \in a..b : j \in Idx(rows) /\ rows[j].id = rows[i].id}

\* groupby(id_col)[...].rolling(window=w, min_periods=mp).mean() at row i,
\* over the column of optional integers x: the mean as sum/count
RollWindowCentered(rows, i, w) ==
  LET pos(j) == Cardinality(SameId(rows, i, 1, j))
      off == (w - 1) \div 2
  IN  {j \in SameId(rows, i, 1, Len(rows)) :
         pos(j) >= pos(i) - w + 1 + off /\ pos(j) <= pos(i) + off}

RollWindow(rows, i, w) ==
  {j \in SameId(rows, i, 1, i) : Cardinality(SameId(rows, i, j, i)) <= w}

RECURSIVE SumOver(_, _)
SumOver(x, S) ==
  IF S = {} THEN 0
  ELSE LET j == CHOOSE k \in S : TRUE IN Val(x[j]) + SumOver(x, S \ {j})

RollingMeanMin1(rows, x, i, w, mp) ==
  LET obs == {j \in RollWindow(rows, i, w) : ~IsNone(x[j])}
  IN  IF Cardinality(obs) >= 1 THEN Some(Rat(SumOver(x, obs), Cardinality(obs))) ELSE None

RollingMean(rows, x, i, w, mp) ==
  LET obs == {j \in RollWindow(rows, i, w) : ~IsNone(x[j])}
  IN  IF Cardinality(obs) >= mp THEN Some(Rat(SumOver(x, obs), Cardinality(obs))) ELSE None

\* groupby(id_col)[...].shift(-H) at row i
ShiftPooled(rows, x, i, H) == IF i + H \in Idx(rows) THEN x[i + H] ELSE None

Shift(rows, x, i, H) ==
  LET tgt == {j \in Idx(rows) : j >= i /\ rows[j].id = rows[i].id
                                 /\ Cardinality(SameId(rows, i, i, j)) = H + 1}
  IN  IF tgt = {} THEN None ELSE x[CHOOSE j \in tgt : TRUE]

\* ((future - ma3) / ma3 <= drop_thresh) in IEEE arithmetic, ma3 = sum/n:
\* a zero ma3 gives +inf, nan or -inf
RatioLeStrict(future, ma3, thresh) ==
  LET d == ma3.den * future - ma3.num
  IN  IF ma3.num > 0 THEN d * thresh.den < thresh.num * ma3.num
      ELSE IF ma3.num < 0 THEN d * thresh.den > thresh.num * ma3.num
      ELSE d < 0

RatioLe(future, ma3, thresh) ==
  LET d == ma3.den * future - ma3.num
  IN  IF ma3.num > 0 THEN d * thresh.den <= thresh.num * ma3.num
      ELSE IF ma3.num < 0 THEN d * thresh.den >= thresh.num * ma3.num
      ELSE d < 0

\* lines 193-196: the drop label of row i at horizon H
DropLabelZeroCensored(rows, proxy, ma3, i, H, thresh) ==
  LET future == Shift(rows, proxy, i, H)
  IN  IF IsNone(future) \/ IsNone(ma3[i]) \/ Val(ma3[i]).num = 0 THEN None
      ELSE IF RatioLe(Val(future), Val(ma3[i]), thresh) THEN Some(1) ELSE Some(0)

DropLabel(rows, proxy, ma3, i, H, thresh) ==
  LET future == Shift(rows, proxy, i, H)
  IN  IF IsNone(future) \/ IsNone(ma3[i]) THEN None
      ELSE IF RatioLe(Val(future), Val(ma3[i]), thresh) THEN Some(1) ELSE Some(0)

\* an MCT_ME_D cell: empty, text that is no date, or a date in month m
NoDate == [t |-> "nan", m |-> 0]
BadDate == [t |-> "text", m |-> 0]
Date(m) == [t |-> "date", m |-> m]

\* pd.to_datetime(..., errors="coerce").dt.to_period("M"): the month, None = NaT
close_month(cell) == IF cell.t = "date" THEN Some(cell.m) ELSE None

\* lines 199-211: the closure label of a row
CloseLabelAtClose(row, has_close, close_horizon) ==
  IF ~has_close \/ IsNone(close_month(row.close)) THEN Some(0)
  ELSE LET dist == Val(close_month(row.close)) - row.month
       IN  IF dist < 0 THEN None
           ELSE IF dist >= 0 /\ dist <= close_horizon THEN Some(1)
           ELSE Some(0)

CloseLabelNaTMissing(row, has_close, close_horizon) ==
  IF ~has_close THEN Some(0)
  ELSE IF IsNone(close_month(row.close)) THEN None
  ELSE LET dist == Val(close_month(row.close)) - row.month
       IN  IF dist <= 0 THEN None
           ELSE IF dist >= 1 /\ dist <= close_horizon THEN Some(1)
           ELSE Some(0)

CloseLabelAfterZero(row, has_close, close_horizon) ==
  IF ~has_close \/ IsNone(close_month(row.close)) THEN Some(0)
  ELSE LET dist == Val(close_month(row.close)) - row.month
       IN  IF dist >= 1 /\ dist <= close_horizon THEN Some(1) ELSE Some(0)

CloseLabelUnknownMissing(row, has_close, close_horizon) ==
  IF ~has_close \/ IsNone(close_month(row.close)) THEN None
  ELSE LET dist == Val(close_month(row.close)) - row.month
       IN  IF dist <= 0 THEN None
           ELSE IF dist >= 1 /\ dist <= close_horizon THEN Some(1)
           ELSE Some(0)

CloseLabel(row, has_close, close_horizon) ==
  IF ~has_close \/ IsNone(close_month(row.close)) THEN Some(0)
  ELSE LET dist == Val(close_month(row.close)) - row.month
       IN  IF dist <= 0 THEN None
           ELSE IF dist >= 1 /\ dist <= close_horizon THEN Some(1)
           ELSE Some(0)

\* DataFrame.max(axis=1, skipna=True) over a set of optional labels
RowMaxNoSkip(comps) ==
  IF None \in comps THEN None
  ELSE Some(CHOOSE v \in {Val(c) : c \in comps} : \A u \in {Val(c) : c \in comps} : u <= v)

RowMax(comps) ==
  LET known == {Val(c) : c \in comps \ {None}}
  IN  IF known = {} THEN None ELSE Some(CHOOSE v \in known : \A u \in known : u <= v)

Range(f) == {f[i] : i \in DOMAIN f}

\* lines 182-185: no candidate column is in the panel
NoCandidateValues(df) ==
  df.ncand = 0 \/ \A i \in Idx(df.rows) : \A c \in Idx(df.rows[i].cands) : IsNone(df.rows[i].cands[c])

NoCandidates(df) == df.ncand = 0

\* the labelled panel; raised = the ValueError of line 185
make_labels(df, drop_horizons, drop_thresh, close_horizon) ==
  LET rows == sort_values(df.rows)
      proxy == [i \in Idx(rows) |-> KpiProxy(rows[i].cands)]
      ma3 == [i \in Idx(rows) |-> RollingMean(rows, proxy, i, 3, 2)]
      Hs == Range(drop_horizons)
      y_drop == [i \in Idx(rows) |-> [H \in Hs |-> DropLabel(rows, proxy, ma3, i, H, drop_thresh)]]
      y_close == [i \in Idx(rows) |-> CloseLabel(rows[i], df.has_close, close_horizon)]
  IN  IF NoCandidates(df) THEN [raised |-> TRUE, rows |-> <<>>]
      ELSE [raised |-> FALSE,
            rows |-> [i \in Idx(rows) |->
                       [id |-> rows[i].id, month |-> rows[i].month,
                        cands |-> rows[i].cands, close |-> rows[i].close,
                        KPI_PROXY |-> proxy[i], KPI_PROXY_MA3 |-> ma3[i],
                        y_drop |-> y_drop[i], y_close |-> y_close[i],
                        y_risk_any |-> RowMax(Range(y_drop[i]) \cup {y_close[i]})]]]

\* run_lgbm, line 339: merged.dropna(subset=["y_risk_any"])
HasRisk(row) == ~IsNone(row.y_risk_any)
dropna_risk(rows) == SelectSeq(rows, HasRisk)

(***************************************************************************)
(* add_rolling_features (lines 150-171) on one numeric column x.  A row is *)
(* [id, month, x]; x is an optional integer.  A float result that can be   *)
(* infinite is a record: nan, inf, -inf or the exact quotient n/d.  A      *)
(* rolling standard deviation is carried as its square, the sample         *)
(* variance, which is rational.                                            *)
(***************************************************************************)
FNaN == [k |-> "nan", n |-> 0, d |-> 1]
FInf == [k |-> "inf", n |-> 0, d |-> 1]
FNegInf == [k |-> "-inf", n |-> 0, d |-> 1]
FNum(n, d) == [k |-> "num", n |-> n, d |-> d]

\* IEEE a / b on integers
FDiv(a, b) ==
  IF b = 0 THEN (IF a > 0 THEN FInf ELSE IF a < 0 THEN FNegInf ELSE FNaN)
  ELSE IF b < 0 THEN FNum(-a, -b) ELSE FNum(a, b)

RECURSIVE SumSqOver(_, _)
SumSqOver(x, S) ==
  IF S = {} THEN 0
  ELSE LET j == CHOOSE k \in S : TRUE IN Val(x[j]) * Val(x[j]) + SumSqOver(x, S \ {j})

\* groupby(id_col)[...].rolling(window=w, min_periods=mp).std() at row i: the
\* sample variance (ddof = 1) of the valid values of the window
RollingStdPopulation(rows, x, i, w, mp) ==
  LET obs == {j \in RollWindow(rows, i, w) : ~IsNone(x[j])}
      n == Cardinality(obs)
  IN  IF n >= 1
      THEN Some(Rat(n * SumSqOver(x, obs) - SumOver(x, obs) * SumOver(x, obs), n * n))
      ELSE None

RollingStd(rows, x, i, w, mp) ==
  LET obs == {j \in RollWindow(rows, i, w) : ~IsNone(x[j])}
      n == Cardinality(obs)
  IN  IF n >= mp /\ n >= 2
      THEN Some(Rat(n * SumSqOver(x, obs) - SumOver(x, obs) * SumOver(x, obs), n * (n - 1)))
      ELSE None

\* the merchant's last valid value at or before row i: groupby(id_col).ffill()
GroupFfill(rows, x, i) ==
  LET obs == {j \in SameId(rows, i, 1, i) : ~IsNone(x[j])}
  IN  IF obs = {} THEN None ELSE x[CHOOSE j \in obs : \A k \in obs : k <= j]

\* the merchant's row before row i, 0 when row i is the merchant's first
PrevRow(rows, i) ==
  LET before == SameId(rows, i, 1, i - 1)
  IN  IF before = {} THEN 0 ELSE CHOOSE j \in before : \A k \in before : k <= j

\* groupby(id_col)[...].pct_change(periods=1) at row i: with the default
\* fill_method="ffill", filled / filled.shift(1) - 1 within the merchant
PctChange(rows, x, i) ==
  LET filled == GroupFfill(rows, x, i)
      shifted == IF PrevRow(rows, i) = 0 THEN None ELSE GroupFfill(rows, x, PrevRow(rows, i))
  IN  IF IsNone(filled) \/ IsNone(shifted) THEN FNaN
      ELSE FDiv(Val(filled) - Val(shifted), Val(shifted))

\* the panel with x__MA{w}, x__PCT1 and x__VOL{w} for the windows w
add_rolling_features(rows0, windows) ==
  LET rows == sort_values(rows0)
      x == [i \in Idx(rows) |-> rows[i].x]
      Ws == Range(windows)
  IN  [i \in Idx(rows) |->
        [id |-> rows[i].id, month |-> rows[i].month, x |-> rows[i].x,
         MA |-> [w \in Ws |-> RollingMean(rows, x, i, w, 1)],
         PCT1 |-> PctChange(rows, x, i),
         VOL |-> [w \in Ws |-> RollingStd(rows, x, i, w, 2)]]]

(***************************************************************************)
(* build_peer_zscores (lines 135-147) on one value column x.  A row is     *)
(* [region, zone, month, x]: the two peer keys (None = NaN), TA_YM and the *)
(* optional value.  A z-score is carried as the deviation from the group   *)
(* mean and the sample variance of the group: z = dev / sqrt(var).         *)
(***************************************************************************)
\* df.groupby(peer_keys + ["TA_YM"]): the group of row i; a row with a NaN
\* key is in no group
PeerGroup(rows, i) ==
  IF IsNone(rows[i].region) \/ IsNone(rows[i].zone) \/ IsNone(rows[i].month) THEN {}
  ELSE {j \in Idx(rows) : /\ rows[j].region = rows[i].region
                          /\ rows[j].zone = rows[i].zone
                          /\ rows[j].month = rows[i].month}

\* g[c].transform("mean") and g[c].transform("std") over the valid values
GroupMean(x, G) ==
  LET obs == {j \in G : ~IsNone(x[j])}
  IN  IF obs = {} THEN None ELSE Some(Rat(SumOver(x, obs), Cardinality(obs)))

GroupStd(x, G) ==
  LET obs == {j \in G : ~IsNone(x[j])}
      n == Cardinality(obs)
  IN  IF n >= 2
      THEN Some(Rat(n * SumSqOver(x, obs) - SumOver(x, obs) * SumOver(x, obs), n * (n - 1)))
      ELSE None

\* std.replace({0.0: np.nan})
ReplaceZeroByOne(std) == IF ~IsNone(std) /\ Val(std).num = 0 THEN Some(Rat(1, 1)) ELSE std

ReplaceZero(std) == IF ~IsNone(std) /\ Val(std).num = 0 THEN None ELSE std

\* (df[c] - mean) / std
ZScore(v, mean, std) ==
  IF IsNone(v) \/ IsNone(mean) \/ IsNone(std) THEN None
  ELSE Some([dev |-> Rat(Val(v) * Val(mean).den - Val(mean).num, Val(mean).den),
             var |-> Val(std)])

build_peer_zscores(rows) ==
  LET x == [i \in Idx(rows) |-> rows[i].x]
  IN  [i \in Idx(rows) |->
        [region |-> rows[i].region, zone |-> rows[i].zone, month |-> rows[i].month,
         x |-> rows[i].x,
         PEER_Z |-> ZScore(rows[i].x, GroupMean(x, PeerGroup(rows, i)),
                           ReplaceZero(GroupStd(x, PeerGroup(rows, i))))]]

(***************************************************************************)
(* to_numeric_smart, replace_special_missing and standardize_rates (lines  *)
(* 118-132, 246-258) on one column.  A column is [dtype, cells]; a cell is *)
(* [t, v, comma]: NaN, a number v, or a text that spells the number v      *)
(* (with a thousands comma or not) or spells no number (v = None).  Values *)
(* are exact, in thousandths: -999999.9 is -999999900.                     *)
(***************************************************************************)
SPECIAL_MISSING == {-999999900, -999999000, -99999900, -99999000}

NaNCell == [t |-> "nan", v |-> None, comma |-> FALSE]
NumCell(q) == [t |-> "num", v |-> Some(q), comma |-> FALSE]
TextCell(v, comma) == [t |-> "str", v |-> v, comma |-> comma]

\* Series.isin(SPECIAL_MISSING) on a cell of a numeric column
isin_special(cell) == cell.t = "num" /\ Val(cell.v) \in SPECIAL_MISSING

\* df[c].str.replace(',', '') on a cell of an object column
str_replace_comma(cell) == IF cell.t = "str" THEN TextCell(cell.v, FALSE) ELSE cell

\* whether pd.to_numeric can convert the cell
Parses(cell) == cell.t # "str" \/ (~IsNone(cell.v) /\ ~cell.comma)

ToNumber(cell) ==
  IF cell.t = "str" THEN (IF Parses(cell) THEN NumCell(Val(cell.v)) ELSE NaNCell) ELSE cell

\* pd.to_numeric(column, errors="ignore"): the input when a cell does not parse
to_numeric_ignore(column) ==
  IF \A i \in DOMAIN column.cells : Parses(column.cells[i])
  THEN [dtype |-> "float", cells |-> [i \in DOMAIN column.cells |-> ToNumber(column.cells[i])]]
  ELSE column

\* pd.to_numeric(column, errors="coerce")
to_numeric_coerce(column) ==
  [dtype |-> "float", cells |-> [i \in DOMAIN column.cells |-> ToNumber(column.cells[i])]]

\* lines 128-132, on one column
replace_special_missing(column) ==
  IF column.dtype = "float"
  THEN [dtype |-> "float",
        cells |-> [i \in DOMAIN column.cells |->
                    IF isin_special(column.cells[i]) THEN NaNCell ELSE column.cells[i]]]
  ELSE column

\* lines 246-252, on one column other than ENCODED_MCT and TA_YM
to_numeric_smart(column) ==
  replace_special_missing(
    IF column.dtype = "object"
    THEN to_numeric_ignore([dtype |-> "object",
                            cells |-> [i \in DOMAIN column.cells |-> str_replace_comma(column.cells[i])]])
    ELSE column)

\* df[c] / 100.0 on a cell; the values read have one decimal, so the
\* quotient is a whole number of thousandths
Div100(cell) == IF cell.t = "num" THEN NumCell(Val(cell.v) \div 100) ELSE cell

\* lines 118-125, on one column of RATE_COLS_0_100
standardize_rates_no_isin(column) ==
  LET numeric == to_numeric_coerce(column)
  IN  [dtype |-> "float", cells |-> [i \in DOMAIN numeric.cells |-> Div100(numeric.cells[i])]]

standardize_rates(column) ==
  LET numeric == to_numeric_coerce(column)
      cleaned == [i \in DOMAIN numeric.cells |->
                   IF isin_special(numeric.cells[i]) THEN NaNCell ELSE numeric.cells[i]]
  IN  [dtype |-> "float", cells |-> [i \in DOMAIN cleaned |-> Div100(cleaned[i])]]

\* lines 254-258 on one column: rate tells whether it is in RATE_COLS_0_100
Normalize(column, rate) ==
  IF rate THEN standardize_rates(to_numeric_smart(column)) ELSE to_numeric_smart(column)

(***************************************************************************)
(* The merger of data_transform (lines 260-261).  A table is a sequence of *)
(* rows; a row is a record of its columns: id and month (the keys), K for  *)
(* the columns of the KPI panel, C for those of the customer panel, A for  *)
(* the attributes of the info table.                                       *)
(***************************************************************************)
KeyEq(a, b, on) == \A f \in on : a[f] = b[f]

\* the right rows from position j on that match the left row l, joined to it
RECURSIVE JoinRow(_, _, _, _)
JoinRow(l, right, on, j) ==
  IF j > Len(right) THEN <<>>
  ELSE (IF KeyEq(l, right[j], on) THEN <<l @@ right[j]>> ELSE <<>>)
       \o JoinRow(l, right, on, j + 1)

\* every left row from position i on, with its matches or with missing rcols
RECURSIVE JoinLeft(_, _, _, _, _)
JoinLeft(left, right, on, rcols, i) ==
  IF i > Len(left) THEN <<>>
  ELSE (IF JoinRow(left[i], right, on, 1) = <<>>
        THEN <<left[i] @@ [f \in rcols |-> None]>>
        ELSE JoinRow(left[i], right, on, 1))
       \o JoinLeft(left, right, on, rcols, i + 1)

\* the right rows from position j on that match no left row, with missing lcols
RECURSIVE RightOnly(_, _, _, _, _)
RightOnly(left, right, on, lcols, j) ==
  IF j > Len(right) THEN <<>>
  ELSE (IF \E i \in Idx(left) : KeyEq(left[i], right[j], on) THEN <<>>
        ELSE <<right[j] @@ [f \in lcols |-> None]>>)
       \o RightOnly(left, right, on, lcols, j + 1)

\* pd.merge(left, right, on=on, how=how), how = "outer" or "left"
pd_merge_left(left, right, on, how, lcols, rcols) == JoinLeft(left, right, on, rcols, 1)

pd_merge(left, right, on, how, lcols, rcols) ==
  JoinLeft(left, right, on, rcols, 1)
    \o (IF how = "outer" THEN RightOnly(left, right, on, lcols, 1) ELSE <<>>)

\* lines 260-261, and the sort of line 154 that fixes the row order of the
\* panel data_transform returns
merge_panel(kpi, cust, info) ==
  LET merged == pd_merge(kpi, cust, {"id", "month"}, "outer", {"K"}, {"C"})
  IN  sort_values(pd_merge(merged, info, {"id"}, "left", {"month", "K", "C"}, {"A"}))

(***************************************************************************)
(* main (lines 476-542).  Of the panel the model stages only look at the   *)
(* number of distinct months: args.months in the whole panel, args.labelled*)
(* among the rows with a y_risk_any.  args.cands tells whether a KPI       *)
(* candidate column exists; args.io is the file operation that fails in    *)
(* this run, if any.  run holds the stages started, the files written, the *)
(* models trained, whether tv is bound, and the error that ended the run.  *)
(***************************************************************************)
Artifacts == {"dataset_features_labels.parquet", "dataset_features_labels.csv", "label_summary.csv"}

\* _time_split, line 329, and main, line 510: the month-count precondition
EnoughMonths(n, test_months) == ~(n < test_months + 3)

Started(r, stage) == [r EXCEPT !.stages = Append(@, stage)]
Raised(r, e) == [r EXCEPT !.err = Some(e)]
Wrote(r, files) == [r EXCEPT !.files = @ \cup files]
Trained(r, m) == [r EXCEPT !.trained = @ \cup {m}]

\* data_load, lines 279-291: three writes in a row, the first failing one
\* raises and leaves the earlier files in place
data_load(r, io) ==
  CASE io = "parquet" -> Raised(r, "OSError")
    [] io = "csv" -> Raised(Wrote(r, {"dataset_features_labels.parquet"}), "OSError")
    [] io = "summary" ->
         Raised(Wrote(r, {"dataset_features_labels.parquet", "dataset_features_labels.csv"}), "OSError")
    [] OTHER -> Wrote(r, Artifacts)

\* run_lgbm, lines 337-360: the split of the labelled rows, fit, evaluate
run_lgbm(r, a) ==
  IF ~EnoughMonths(a.labelled, a.test_months) THEN Raised(r, "ValueError: Not enough months")
  ELSE Wrote(Trained(r, "lgbm"), {"lgbm_info.txt"})

\* lines 506-523
run_cox(r, a) ==
  IF ~EnoughMonths(a.months, a.test_months) THEN Raised([r EXCEPT !.tv = TRUE], "RuntimeError: Not enough months")
  ELSE Wrote(Trained([r EXCEPT !.tv = TRUE], "cox"), {"cox_summary.txt"})

\* lines 525-539: without tv in locals the split is made here, unchecked;
\* months[-test_months] raises IndexError when there are fewer months, and
\* fitted tells what the library does with an empty training split
run_aft(r, a, fitted) ==
  IF ~r.tv /\ a.months < a.test_months THEN Raised(r, "IndexError")
  ELSE IF ~r.tv /\ a.months = a.test_months /\ ~fitted THEN Raised(r, "XGBoostError")
  ELSE Wrote(Trained([r EXCEPT !.tv = TRUE], "aft"), {"aft_metrics.txt"})

(***************************************************************************)
(* call_with_retry (src/ai_caller.py, lines 18-27).  inp is the prompt and *)
(* retries; res is the progress of the loop: the loop variable attempt,    *)
(* the exceptions call_gemini raised so far, the seconds slept after each, *)
(* and how the call ended: result (the text returned, None for the None of *)
(* a loop that ran out) or raised (the exception re-raised).               *)
(***************************************************************************)
\* line 25: the wait after a failed attempt
Backoff(attempt) == 2 ^ attempt

\* line 24: the attempt is the last of range(retries)
IsLastAttemptOffByOne(attempt, retries) == ~(attempt < retries)

IsLastAttempt(attempt, retries) == ~(attempt < retries - 1)

\* what call_gemini returns for a prompt when it succeeds at a given attempt
Reply(prompt, attempt) == <<"text", prompt, attempt>>

NewRetry == [attempt |-> 0, failed |-> <<>>, slept |-> <<>>, result |-> None, raised |-> None]

(***************************************************************************)
(* build_survival_frame_timevarying (lines 362-383) on a panel [rows,      *)
(* has_close] with rows [id, month, close, ...] as for make_labels.        *)
(***************************************************************************)
\* line 366: df.groupby(id_col).cumcount() at row i
cumcount(rows, i) == Cardinality(SameId(rows, i, 1, i)) - 1

\* lines 372-375: has_close & (df[time_col] == df["__CLOSE_MONTH"])
Event(row) == IF close_month(row.close) = Some(row.month) THEN 1 ELSE 0

\* the frame; raised = the AttributeError of line 369, where without the
\* column pd.to_datetime(pd.NaT) is the scalar NaT, which has no .dt
build_survival_frame_timevarying(df) ==
  LET rows == sort_values(df.rows)
  IN  IF ~df.has_close THEN [raised |-> TRUE, rows |-> <<>>]
      ELSE [raised |-> FALSE,
            rows |-> [i \in Idx(rows) |->
                       [id |-> rows[i].id, month |-> rows[i].month, close |-> rows[i].close,
                        start |-> cumcount(rows, i), stop |-> cumcount(rows, i) + 1,
                        event |-> Event(rows[i])]]]

(***************************************************************************)
(* State.                                                                  *)
(***************************************************************************)
VARIABLES
  pc,     \* position of the run
  s,      \* the argument of parse_bucket
  ret,    \* the value parse_bucket returned
  col,    \* a bucketed column handed to add_bucket_features
  ORD,    \* the <col>_ORD column it produced
  MID,    \* the <col>_MID column it produced
  df,     \* the panel handed to make_labels
  cfg,    \* drop_horizons, drop_thresh, close_horizon
  out,    \* the panel make_labels returned
  inp,    \* the input of a stage run on its own (rolling, peer, rates, merge, retry)
  res,    \* what the stage returned, or its progress
  args,   \* the command line of main and what the run finds in its environment
  run     \* the progress of main: stages run, files written, error raised

vars == <<pc, s, ret, col, ORD, MID, df, cfg, out, inp, res, args, run>>

(***************************************************************************)
(* Inputs of the field parser.                                             *)
(***************************************************************************)
Alphabet == {"1", "5", "_", "-", "%", " ", ".", "x"}
ShortTexts == UNION {[1..n -> Alphabet] : n \in 0..MaxLen}

Prefixes == {<<>>, <<"3", "_">>, <<"1", "2", "_">>, <<" ">>}
Suffixes == {<<>>, <<"(", "ha", "wi", " ", "1", "0", "%", " ", "i", "ha", ")">>, <<" ">>}
Bodies ==
  { <<"3", "0", "-", "4", "0", "%">>,
    <<"3", "0", " ", "-", " ", "4", "0", " ", "%">>,
    P90Over, P90OverSp, P75to90, P50to75, P25to50, P10to25,
    P10Under, P10UnderSp, PBucket1,
    <<"yo", "in">>,
    <<"1", "5", "0", "%">>,
    <<"1", "2", "0", "-", "1", "5", "0", "%">>,
    <<"1", "2", ".", "5", "%">>,
    <<"4", "5">>,
    <<"4", "5", "%">>,
    <<>> }
BucketTexts == {p \o b \o q : p \in Prefixes, b \in Bodies, q \in Suffixes}

Cells == {PyNone, PyNaN} \cup {PyStr(t) : t \in ShortTexts \cup BucketTexts}

ColumnCells ==
  {PyNone, PyNaN, PyStr(<<>>), PyStr(<<"yo", "in">>), PyStr(<<"3", "_", "yo", "in">>),
   PyStr(<<"2", "_">> \o P10to25)}
Columns == UNION {[1..n -> ColumnCells] : n \in 1..2}

(***************************************************************************)
(* Inputs of the label constructor.  Merchant 2 has any subset of the      *)
(* months 1..MaxMonth; merchant 1 is absent or has a fixed two-month       *)
(* series, and sorts next to merchant 2.                                   *)
(***************************************************************************)
Months == 1..MaxMonth
Absent == <<"absent">>
CandRows == {<<None, None>>, <<Some(0), None>>, <<Some(7), Some(10)>>, <<None, Some(10)>>}
Closures == {NoDate, BadDate, Date(2), Date(3), Date(MaxMonth + 1)}

Row(i, m, cs, cl) == [id |-> i, month |-> m, cands |-> cs, close |-> cl]

RECURSIVE SeriesRows(_, _, _)
SeriesRows(series, m, cl) ==
  IF m > Len(series) THEN <<>>
  ELSE (IF series[m] = Absent THEN <<>> ELSE <<Row(2, m, series[m], cl)>>)
       \o SeriesRows(series, m + 1, cl)

Merchant1Rows == {<<>>, <<Row(1, 1, <<Some(10), None>>, Date(2)), Row(1, 2, <<Some(10), Some(0)>>, Date(2))>>}

Reverse(q) == [k \in 1..Len(q) |-> q[Len(q) + 1 - k]]

WithoutClose(rows) == [k \in 1..Len(rows) |-> Row(rows[k].id, rows[k].month, rows[k].cands, NoDate)]
WithoutCands(rows) == [k \in 1..Len(rows) |-> Row(rows[k].id, rows[k].month, <<>>, rows[k].close)]

\* a panel: merchant 1's rows m1, merchant 2's series with closure cell cl,
\* in ascending or reverse order; with both candidate columns and MCT_ME_D
\* ("full"), without MCT_ME_D ("noclose") or without candidates ("nocands")
Panel(m1, series, cl, rev, shape) ==
  LET asc == m1 \o SeriesRows(series, 1, cl)
      r == IF rev THEN Reverse(asc) ELSE asc
  IN  CASE shape = "full" -> [rows |-> r, ncand |-> 2, has_close |-> TRUE]
        [] shape = "noclose" -> [rows |-> WithoutClose(r), ncand |-> 2, has_close |-> FALSE]
        [] shape = "nocands" -> [rows |-> WithoutCands(r), ncand |-> 0, has_close |-> TRUE]

Config(hs, th, ch) == [drop_horizons |-> hs, drop_thresh |-> th, close_horizon |-> ch]
Configs ==
  { Config(<<1, 2, 3>>, Rat(-30, 100), 3),     \* the defaults of data_transform
    Config(<<1>>, Rat(-30, 100), 1),
    Config(<<2, 1>>, Rat(-50, 100), 2),
    Config(<<1>>, Rat(-30, 100), 0) }

(***************************************************************************)
(* Inputs of the rolling features.  Merchant 2 has any subset of the       *)
(* months 1..MaxMonth with a missing value, 0 or 7 in each; the other      *)
(* merchants are absent or sort right before and right after it.  The      *)
(* stage is run on a panel a and on a variant b of it, to compare the two  *)
(* results: b has another value in month p of merchant 2 (p = 0: none), or *)
(* other rows for the other merchants.                                     *)
(***************************************************************************)
Windows == <<3, 6, 12>>
RollValues == {None, Some(0), Some(7)}
NoRow == <<0, 0>>

RollRow(i, m, v) == [id |-> i, month |-> m, x |-> v]

RECURSIVE RollSeries(_, _)
RollSeries(series, m) ==
  IF m > Len(series) THEN <<>>
  ELSE (IF series[m] = NoRow THEN <<>> ELSE <<RollRow(2, m, series[m])>>)
       \o RollSeries(series, m + 1)

OtherMerchants ==
  { <<>>,
    <<RollRow(1, 3, Some(10)), RollRow(1, 4, Some(7))>>,
    <<RollRow(3, 1, Some(10)), RollRow(1, 4, Some(0))>> }

\* the series with the value of month p replaced by v, when the month has a row
Perturb(series, p, v) ==
  [m \in DOMAIN series |-> IF m = p /\ series[m] # NoRow THEN v ELSE series[m]]

(***************************************************************************)
(* Inputs of the peer z-scores: up to MaxPeers rows, each in one of two    *)
(* months of the same district and zone or without a district.             *)
(***************************************************************************)
PeerRow(r, z, m, v) == [region |-> r, zone |-> z, month |-> m, x |-> v]
PeerRows ==
  {PeerRow(r, Some("z"), Some(m), v) :
     r \in {None, Some("A")}, m \in 1..2, v \in {None, Some(0), Some(7), Some(10)}}

(***************************************************************************)
(* Inputs of the normalisation: a column read with dtype=str, of up to     *)
(* MaxCells cells: empty, a sentinel, a sentinel written with a thousands  *)
(* comma, a rate in range, a number above 100, or text that is no number.  *)
(***************************************************************************)
CsvCells ==
  { NaNCell,
    TextCell(Some(-999999900), FALSE),    \* "-999999.9"
    TextCell(Some(-99999000), FALSE),     \* "-99999.0"
    TextCell(Some(-999999000), TRUE),     \* "-999,999"
    TextCell(Some(50500), FALSE),         \* "50.5"
    TextCell(Some(1200500), TRUE),        \* "1,200.5"
    TextCell(None, FALSE) }

(***************************************************************************)
(* Inputs of the merger: a KPI table and a customer table of up to MaxRows *)
(* rows each over merchants 1, 2 and months 1, 2, and an info table of up  *)
(* to MaxRows rows over merchants 1 and 3.  A row carries its position in  *)
(* its table as its content, so that rows with equal keys stay apart.      *)
(***************************************************************************)
MergeKeys == {<<i, m>> : i \in {1, 2}, m \in {1, 2}}
KpiTable(keys) == [k \in 1..Len(keys) |-> [id |-> keys[k][1], month |-> keys[k][2], K |-> Some(k)]]
CustTable(keys) == [k \in 1..Len(keys) |-> [id |-> keys[k][1], month |-> keys[k][2], C |-> Some(k)]]
InfoTable(ids) == [k \in 1..Len(ids) |-> [id |-> ids[k], A |-> Some(k)]]

(***************************************************************************)
(* Inputs of main: the method, test_months, a panel of up to MaxMonth + 2  *)
(* distinct months, and the failure the environment injects.               *)
(***************************************************************************)
Methods == {"lgbm", "cox", "aft", "all"}
TestMonths == 1..3
IoFailures == {"none", "read", "parquet", "csv", "summary"}
NewRun == [stages |-> <<>>, files |-> {}, trained |-> {}, tv |-> FALSE, err |-> None]

(***************************************************************************)
(* Inputs of call_with_retry: retries from -1 to MaxRetries, and the       *)
(* exceptions call_gemini can raise at an attempt.                         *)
(***************************************************************************)
Prompts == {"p1", "p2"}
Exceptions == {"RuntimeError", "ServiceUnavailable"}

EmptyPanel == [rows |-> <<>>, ncand |-> 0, has_close |-> FALSE]
NoOutput == [raised |-> FALSE, rows |-> <<>>]
NoInput == <<>>
NoResult == <<>>
NoArgs == <<>>
NoRun == <<>>

\* the variables of the components that are not running
IdleParse == s = PyNone /\ ret = Ret(None, None) /\ col = <<>> /\ ORD = <<>> /\ MID = <<>>
IdleLabels == df = EmptyPanel /\ cfg = Config(<<>>, Rat(0, 1), 0) /\ out = NoOutput
IdleStage == inp = NoInput /\ res = NoResult
IdleMain == args = NoArgs /\ run = NoRun

(***************************************************************************)
(* Initial states and actions.                                             *)
(***************************************************************************)
InitParse ==
  /\ pc = "parse_start"
  /\ \/ s \in Cells /\ col = <<>>
     \/ s = PyNone /\ col \in Columns
  /\ ret = Ret(None, None)
  /\ ORD = <<>>
  /\ MID = <<>>
  /\ df = EmptyPanel
  /\ cfg = Config(<<>>, Rat(0, 1), 0)
  /\ out = NoOutput
  /\ IdleStage
  /\ IdleMain

InitLabels ==
  /\ pc = "labels_start"
  /\ \E m1 \in Merchant1Rows, series \in [Months -> CandRows \cup {Absent}], cl \in Closures,
        rev \in BOOLEAN, shape \in {"full", "noclose", "nocands"} :
       /\ shape = "noclose" => cl = NoDate
       /\ shape = "nocands" => (cl = NoDate /\ ~rev /\ \A m \in Months : series[m] = <<None, None>>)
       /\ df = Panel(m1, series, cl, rev, shape)
  /\ cfg \in Configs
  /\ out = NoOutput
  /\ s = PyNone
  /\ ret = Ret(None, None)
  /\ col = <<>>
  /\ ORD = <<>>
  /\ MID = <<>>
  /\ IdleStage
  /\ IdleMain

InitRolling ==
  /\ pc = "rolling_start"
  /\ \E others \in OtherMerchants, series \in [Months -> RollValues \cup {NoRow}], rev \in BOOLEAN :
       LET a == others \o RollSeries(series, 1)
           Order(q) == IF rev THEN Reverse(q) ELSE q
       IN  \/ \E p \in Months, v \in RollValues :
                inp = [a |-> Order(a), b |-> Order(others \o RollSeries(Perturb(series, p, v), 1)), p |-> p]
           \/ \E others2 \in OtherMerchants :
                inp = [a |-> Order(a), b |-> Order(others2 \o RollSeries(series, 1)), p |-> 0]
  /\ res = NoResult
  /\ IdleParse
  /\ IdleLabels
  /\ IdleMain

InitPeer ==
  /\ pc = "peer_start"
  /\ \E n \in 1..MaxPeers : inp \in [1..n -> PeerRows]
  /\ res = NoResult
  /\ IdleParse
  /\ IdleLabels
  /\ IdleMain

InitRates ==
  /\ pc = "rates_start"
  /\ \E n \in 1..MaxCells, rate \in BOOLEAN : \E cells \in [1..n -> CsvCells] :
       inp = [column |-> [dtype |-> "object", cells |-> cells], rate |-> rate]
  /\ res = NoResult
  /\ IdleParse
  /\ IdleLabels
  /\ IdleMain

InitMerge ==
  /\ pc = "merge_start"
  /\ \E nk, nc, ni \in 0..MaxRows :
       \E kk \in [1..nk -> MergeKeys], ck \in [1..nc -> MergeKeys], ids \in [1..ni -> {1, 3}] :
         inp = [kpi |-> KpiTable(kk), cust |-> CustTable(ck), info |-> InfoTable(ids)]
  /\ res = NoResult
  /\ IdleParse
  /\ IdleLabels
  /\ IdleMain

InitMain ==
  /\ pc = "main_start"
  /\ \E method \in Methods, tm \in TestMonths, months \in 0..(MaxMonth + 2),
        cands \in BOOLEAN, io \in IoFailures :
       \E labelled \in 0..months :
         args = [method |-> method, test_months |-> tm, months |-> months,
                 labelled |-> labelled, cands |-> cands, io |-> io]
  /\ run = NewRun
  /\ IdleParse
  /\ IdleLabels
  /\ IdleStage

InitRetry ==
  /\ pc = "retry_loop"
  /\ \E prompt \in Prompts, retries \in (-1)..MaxRetries :
       inp = [prompt |-> prompt, retries |-> retries]
  /\ res = NewRetry
  /\ IdleParse
  /\ IdleLabels
  /\ IdleMain

InitSurvival ==
  /\ pc = "survival_start"
  /\ \E m1 \in Merchant1Rows, series \in [Months -> {<<None, None>>, <<Some(7), Some(10)>>, Absent}],
        cl \in Closures, rev \in BOOLEAN, shape \in {"full", "noclose"} :
       /\ shape = "noclose" => cl = NoDate
       /\ inp = Panel(m1, series, cl, rev, shape)
  /\ res = NoResult
  /\ IdleParse
  /\ IdleLabels
  /\ IdleMain

Init ==
  InitParse \/ InitLabels \/ InitRolling \/ InitPeer \/ InitRates \/ InitMerge \/ InitMain
    \/ InitRetry \/ InitSurvival

\* a call parse_bucket(s)
ParseBucket ==
  /\ pc = "parse_start"
  /\ pc' = "parsed"
  /\ ret' = parse_bucket(s)
  /\ UNCHANGED <<s, col, ORD, MID, df, cfg, out, inp, res, args, run>>

\* a call add_bucket_features(df, [c]) on the column col
AddBucketFeatures ==
  /\ pc = "parse_start"
  /\ pc' = "added"
  /\ ORD' = add_bucket_features(col).ORD
  /\ MID' = add_bucket_features(col).MID
  /\ UNCHANGED <<s, ret, col, df, cfg, out, inp, res, args, run>>

\* a call make_labels(df, id_col, time_col, drop_horizons, drop_thresh, close_horizon)
MakeLabels ==
  /\ pc = "labels_start"
  /\ out' = make_labels(df, cfg.drop_horizons, cfg.drop_thresh, cfg.close_horizon)
  /\ pc' = IF out'.raised THEN "labels_raised" ELSE "labelled"
  /\ UNCHANGED <<s, ret, col, ORD, MID, df, cfg, inp, res, args, run>>

\* a call add_rolling_features(df, windows=(3, 6, 12)), on each of the two panels
AddRollingFeatures ==
  /\ pc = "rolling_start"
  /\ pc' = "rolled"
  /\ res' = [a |-> add_rolling_features(inp.a, Windows),
             b |-> add_rolling_features(inp.b, Windows)]
  /\ UNCHANGED <<s, ret, col, ORD, MID, df, cfg, out, inp, args, run>>

\* a call build_peer_zscores(df)
BuildPeerZscores ==
  /\ pc = "peer_start"
  /\ pc' = "peer_done"
  /\ res' = build_peer_zscores(inp)
  /\ UNCHANGED <<s, ret, col, ORD, MID, df, cfg, out, inp, args, run>>

\* to_numeric_smart and standardize_rates of data_transform, on one column
NormalizeColumn ==
  /\ pc = "rates_start"
  /\ pc' = "rates_done"
  /\ res' = Normalize(inp.column, inp.rate)
  /\ UNCHANGED <<s, ret, col, ORD, MID, df, cfg, out, inp, args, run>>

\* the two merges of data_transform and the sort of the merged panel
MergePanel ==
  /\ pc = "merge_start"
  /\ pc' = "merged"
  /\ res' = merge_panel(inp.kpi, inp.cust, inp.info)
  /\ UNCHANGED <<s, ret, col, ORD, MID, df, cfg, out, inp, args, run>>

\* line 492: data_extract reads the three files
DataExtract ==
  /\ pc = "main_start"
  /\ run' = IF args.io = "read" THEN Raised(Started(run, "extract"), "OSError")
            ELSE Started(run, "extract")
  /\ pc' = IF IsNone(run'.err) THEN "extracted" ELSE "aborted"
  /\ UNCHANGED <<s, ret, col, ORD, MID, df, cfg, out, inp, res, args>>

\* lines 493-496: data_transform, which ends in make_labels
DataTransform ==
  /\ pc = "extracted"
  /\ run' = IF ~args.cands THEN Raised(Started(run, "transform"), "ValueError: No KPI candidates")
            ELSE Started(run, "transform")
  /\ pc' = IF IsNone(run'.err) THEN "transformed" ELSE "aborted"
  /\ UNCHANGED <<s, ret, col, ORD, MID, df, cfg, out, inp, res, args>>

\* line 497: data_load(merged, args.outdir)
DataLoad ==
  /\ pc = "transformed"
  /\ run' = data_load(Started(run, "load"), args.io)
  /\ pc' = IF IsNone(run'.err) THEN "loaded" ELSE "aborted"
  /\ UNCHANGED <<s, ret, col, ORD, MID, df, cfg, out, inp, res, args>>

\* lines 502-503
MainLgbm ==
  /\ pc = "loaded"
  /\ run' = IF args.method \in {"lgbm", "all"} THEN run_lgbm(Started(run, "lgbm"), args) ELSE run
  /\ pc' = IF IsNone(run'.err) THEN "lgbm_done" ELSE "aborted"
  /\ UNCHANGED <<s, ret, col, ORD, MID, df, cfg, out, inp, res, args>>

\* lines 506-523
MainCoxUnselected ==
  /\ pc = "lgbm_done"
  /\ run' = run_cox(Started(run, "cox"), args)
  /\ pc' = IF IsNone(run'.err) THEN "cox_done" ELSE "aborted"
  /\ UNCHANGED <<s, ret, col, ORD, MID, df, cfg, out, inp, res, args>>

MainCox ==
  /\ pc = "lgbm_done"
  /\ run' = IF args.method \in {"cox", "all"} THEN run_cox(Started(run, "cox"), args) ELSE run
  /\ pc' = IF IsNone(run'.err) THEN "cox_done" ELSE "aborted"
  /\ UNCHANGED <<s, ret, col, ORD, MID, df, cfg, out, inp, res, args>>

\* lines 525-542
MainAft ==
  /\ pc = "cox_done"
  /\ \E fitted \in BOOLEAN :
       run' = IF args.method \in {"aft", "all"} THEN run_aft(Started(run, "aft"), args, fitted) ELSE run
  /\ pc' = IF IsNone(run'.err) THEN "done" ELSE "aborted"
  /\ UNCHANGED <<s, ret, col, ORD, MID, df, cfg, out, inp, res, args>>

\* line 19: range(retries) is exhausted, the function falls off its end
RetryExhausted ==
  /\ pc = "retry_loop"
  /\ ~(res.attempt < inp.retries)
  /\ pc' = "retry_returned"
  /\ UNCHANGED <<s, ret, col, ORD, MID, df, cfg, out, inp, res, args, run>>

\* lines 20-21: call_gemini returns
RetrySuccess ==
  /\ pc = "retry_loop"
  /\ res.attempt < inp.retries
  /\ res' = [res EXCEPT !.result = Some(Reply(inp.prompt, res.attempt))]
  /\ pc' = "retry_returned"
  /\ UNCHANGED <<s, ret, col, ORD, MID, df, cfg, out, inp, args, run>>

\* lines 22-27: call_gemini raises e
RetryFailure ==
  /\ pc = "retry_loop"
  /\ res.attempt < inp.retries
  /\ \E e \in Exceptions :
       IF IsLastAttempt(res.attempt, inp.retries)
       THEN /\ res' = [res EXCEPT !.failed = Append(@, e), !.raised = Some(e)]
            /\ pc' = "retry_raised"
       ELSE /\ res' = [res EXCEPT !.failed = Append(@, e),
                                  !.slept = Append(@, Backoff(res.attempt)),
                                  !.attempt = @ + 1]
            /\ pc' = "retry_loop"
  /\ UNCHANGED <<s, ret, col, ORD, MID, df, cfg, out, inp, args, run>>

\* a call build_survival_frame_timevarying(merged)
BuildSurvivalFrame ==
  /\ pc = "survival_start"
  /\ res' = build_survival_frame_timevarying(inp)
  /\ pc' = IF res'.raised THEN "survival_raised" ELSE "survival_built"
  /\ UNCHANGED <<s, ret, col, ORD, MID, df, cfg, out, inp, args, run>>

NextParse == ParseBucket \/ AddBucketFeatures
NextLabels == MakeLabels
NextRolling == AddRollingFeatures
NextPeer == BuildPeerZscores
NextRates == NormalizeColumn
NextMerge == MergePanel
NextRetry == RetryExhausted \/ RetrySuccess \/ RetryFailure
NextSurvival == BuildSurvivalFrame
NextMain == DataExtract \/ DataTransform \/ DataLoad \/ MainLgbm \/ MainCox \/ MainAft
Next == ParseBucket \/ AddBucketFeatures \/ MakeLabels \/ AddRollingFeatures
          \/ BuildPeerZscores \/ NormalizeColumn \/ MergePanel
          \/ DataExtract \/ DataTransform \/ DataLoad \/ MainLgbm \/ MainCox \/ MainAft
          \/ RetryExhausted \/ RetrySuccess \/ RetryFailure \/ BuildSurvivalFrame

SpecParse == InitParse /\ [][NextParse]_vars
SpecLabels == InitLabels /\ [][NextLabels]_vars
SpecRolling == InitRolling /\ [][NextRolling]_vars
SpecPeer == InitPeer /\ [][NextPeer]_vars
SpecRates == InitRates /\ [][NextRates]_vars
SpecMerge == InitMerge /\ [][NextMerge]_vars
SpecMain == InitMain /\ [][NextMain]_vars
SpecRetry == InitRetry /\ [][NextRetry]_vars
SpecSurvival == InitSurvival /\ [][NextSurvival]_vars
\* both row-preserving stages, make_labels with the defaults of data_transform
InitRows == InitRolling \/ (InitLabels /\ cfg = Config(<<1, 2, 3>>, Rat(-30, 100), 3))
SpecRows == InitRows /\ [][NextRolling \/ NextLabels]_vars
Spec == Init /\ [][Next]_vars

(***************************************************************************)
(* Properties of make_labels.                                              *)
(***************************************************************************)
O == out.rows
Horizons == Range(cfg.drop_horizons)
ExpectedDrop(f, b) ==
  IF b.num > 0 /\ (f * b.den - b.num) * cfg.drop_thresh.den <= cfg.drop_thresh.num * b.num
  THEN Some(1) ELSE Some(0)

\* C1: for every horizon H and every row whose baseline KPI_PROXY_MA3 and
\* whose future KPI proxy (the row H places later in the same merchant's
\* series) are both available, y_drop_hH is 1 exactly when
\* (future - baseline)/baseline <= drop_thresh and 0 otherwise, equality
\* included; there is one y_drop_hH per configured horizon.
C1_DropLabelThreshold ==
  pc = "labelled" =>
    \A i \in Idx(O) :
      /\ DOMAIN O[i].y_drop = Horizons
      /\ \A H \in Horizons :
           ( /\ i + H \in Idx(O)
             /\ O[i + H].id = O[i].id
             /\ ~IsNone(O[i + H].KPI_PROXY)
             /\ ~IsNone(O[i].KPI_PROXY_MA3) )
           => O[i].y_drop[H] = ExpectedDrop(Val(O[i + H].KPI_PROXY), Val(O[i].KPI_PROXY_MA3))

\* a row whose relative change equals drop_thresh exactly is labelled 1
C1_Witness ==
  /\ pc = "labelled"
  /\ \E i \in Idx(O) : \E H \in Horizons :
       /\ i + H \in Idx(O) /\ O[i + H].id = O[i].id
       /\ ~IsNone(O[i + H].KPI_PROXY) /\ ~IsNone(O[i].KPI_PROXY_MA3)
       /\ LET f == Val(O[i + H].KPI_PROXY)
              b == Val(O[i].KPI_PROXY_MA3)
          IN  b.num > 0 /\ (f * b.den - b.num) * cfg.drop_thresh.den = cfg.drop_thresh.num * b.num
       /\ O[i].y_drop[H] = Some(1)

\* C2: y_drop_hH is missing on every row whose +H lookup leaves the
\* merchant's series (the next H rows do not all belong to the merchant)
\* and on every row whose baseline KPI_PROXY_MA3 is missing.
C2_DropLabelCensored ==
  pc = "labelled" =>
    \A i \in Idx(O) : \A H \in Horizons :
      ( \/ i + H \notin Idx(O)
        \/ O[i + H].id # O[i].id
        \/ IsNone(O[i].KPI_PROXY_MA3) )
      => O[i].y_drop[H] = None

\* the last row of one merchant, with a baseline, directly followed by a
\* row of another merchant that has a KPI proxy: the label is missing
C2_Witness ==
  /\ pc = "labelled"
  /\ \E i \in Idx(O) :
       /\ i + 1 \in Idx(O) /\ O[i + 1].id # O[i].id
       /\ ~IsNone(O[i].KPI_PROXY_MA3) /\ ~IsNone(O[i + 1].KPI_PROXY)
       /\ 1 \in Horizons /\ O[i].y_drop[1] = None

\* C3: the future value of the horizon-H drop label of a row at calendar
\* month m is the merchant's KPI proxy at calendar month m+H; when the
\* merchant has no row at month m+H the label is missing.
C3_DropLabelCalendarMonth ==
  pc = "labelled" =>
    \A i \in Idx(O) : \A H \in Horizons :
      LET tgt == {j \in Idx(O) : O[j].id = O[i].id /\ O[j].month = O[i].month + H}
      IN  IF tgt = {} THEN O[i].y_drop[H] = None
          ELSE \A j \in tgt :
                 (~IsNone(O[j].KPI_PROXY) /\ ~IsNone(O[i].KPI_PROXY_MA3))
                 => O[i].y_drop[H] = ExpectedDrop(Val(O[j].KPI_PROXY), Val(O[i].KPI_PROXY_MA3))

\* C4: on a row of a merchant with a known closure month, with
\* dist = closure month - row month, the closure label is 1 iff
\* 1 <= dist <= close_horizon, missing iff dist <= 0, 0 iff dist > close_horizon.
C4_CloseLabelBoundary ==
  pc = "labelled" =>
    \A i \in Idx(O) :
      (df.has_close /\ O[i].close.t = "date") =>
        LET dist == O[i].close.m - O[i].month
        IN  /\ (O[i].y_close = Some(1)) <=> (1 <= dist /\ dist <= cfg.close_horizon)
            /\ (O[i].y_close = None) <=> (dist <= 0)
            /\ (O[i].y_close = Some(0)) <=> (dist > cfg.close_horizon)

\* one merchant with a row exactly close_horizon months before closure
\* (label 1) and a row at the closure month (label missing)
C4_Witness ==
  /\ pc = "labelled"
  /\ df.has_close
  /\ \E i \in Idx(O) : \E j \in Idx(O) :
       /\ O[i].id = O[j].id /\ O[i].close.t = "date"
       /\ O[i].close.m - O[i].month = cfg.close_horizon /\ O[i].y_close = Some(1)
       /\ O[j].close.m - O[j].month = 0 /\ O[j].y_close = None

\* C5: a row without a known closure date (no MCT_ME_D column, or an
\* empty or unparseable cell) has closure label 0, never missing.
C5_NoClosureLabelZero ==
  pc = "labelled" =>
    \A i \in Idx(O) :
      (~df.has_close \/ O[i].close.t # "date") => O[i].y_close = Some(0)

\* a panel with the column present, one merchant with an unparseable
\* closure cell (label 0) next to a merchant with a closure date whose
\* label is missing
C5_Witness ==
  /\ pc = "labelled"
  /\ df.has_close
  /\ \E i \in Idx(O) : \E j \in Idx(O) :
       /\ O[i].close.t = "text" /\ O[i].y_close = Some(0)
       /\ O[j].close.t = "date" /\ O[j].y_close = None

Components(i) == Range(O[i].y_drop) \cup {O[i].y_close}

\* C6: y_risk_any is 1 if some drop label or the closure label is 1,
\* missing iff all of them are missing, and 0 otherwise; with a single
\* horizon and no closure date it equals y_drop_hH wherever that is known.
C6_RiskAnyUnion ==
  pc = "labelled" =>
    \A i \in Idx(O) :
      /\ (O[i].y_risk_any = Some(1)) <=> (Some(1) \in Components(i))
      /\ (O[i].y_risk_any = None) <=> (Components(i) = {None})
      /\ (O[i].y_risk_any = Some(0)) <=> (Some(1) \notin Components(i) /\ Some(0) \in Components(i))
      /\ \A H \in Horizons :
           (Horizons = {H} /\ (~df.has_close \/ O[i].close.t # "date") /\ ~IsNone(O[i].y_drop[H]))
           => O[i].y_risk_any = O[i].y_drop[H]

\* a row with one component 1 and another missing (union 1), and a row
\* with every component missing (union missing)
C6_Witness ==
  /\ pc = "labelled"
  /\ \E i \in Idx(O) : \E j \in Idx(O) :
       /\ Some(1) \in Components(i) /\ None \in Components(i) /\ O[i].y_risk_any = Some(1)
       /\ Components(j) = {None} /\ O[j].y_risk_any = None

\* C19: make_labels raises its configuration error exactly when no KPI
\* candidate column is in the panel, and then no label column is computed;
\* it does not raise when the candidate columns are there without a value
C19_NoCandidatesRaises ==
  pc \in {"labelled", "labels_raised"} =>
    /\ out.raised <=> df.ncand = 0
    /\ pc = "labels_raised" <=> out.raised
    /\ out.raised => out.rows = <<>>
    /\ (df.ncand > 0 /\ \A i \in Idx(df.rows) : df.rows[i].cands = <<None, None>>) =>
         (~out.raised /\ Len(O) = Len(df.rows) /\ \A i \in Idx(O) : IsNone(O[i].KPI_PROXY))

\* a panel with rows and no candidate column, on which make_labels raised
C19_Witness ==
  /\ pc = "labels_raised"
  /\ df.ncand = 0
  /\ Len(df.rows) > 0
  /\ out.raised

\* the first candidate cell of a row that has a value, None when none has
FirstValid(cs) ==
  LET valid == {c \in Idx(cs) : ~IsNone(cs[c])}
  IN  IF valid = {} THEN None ELSE cs[CHOOSE c \in valid : \A d \in valid : c <= d]

\* C22: on every row KPI_PROXY is the first non-missing candidate of that
\* row in priority order, and is missing iff all its candidates are missing
C22_KpiProxyCoalesce ==
  pc = "labelled" =>
    \A i \in Idx(O) :
      /\ O[i].KPI_PROXY = FirstValid(O[i].cands)
      /\ IsNone(O[i].KPI_PROXY) <=> \A c \in Idx(O[i].cands) : IsNone(O[i].cands[c])

\* a row filled from its second candidate, and a row without a value right
\* after a row of the same merchant that has one
C22_Witness ==
  /\ pc = "labelled"
  /\ \E i, j \in Idx(O) :
       /\ O[i].cands = <<None, Some(10)>> /\ O[i].KPI_PROXY = Some(10)
       /\ j > 1 /\ O[j].id = O[j - 1].id
       /\ O[j - 1].KPI_PROXY = Some(7)
       /\ O[j].cands = <<None, None>> /\ IsNone(O[j].KPI_PROXY)

\* the position of row i among the rows of its merchant
Rank(i) == Cardinality({j \in Idx(O) : j <= i /\ O[j].id = O[i].id})

\* the rows of the merchant of row i from two rows before it up to it that
\* have a KPI proxy
Last3Valid(i) ==
  {j \in Idx(O) : /\ O[j].id = O[i].id
                  /\ Rank(j) <= Rank(i) /\ Rank(j) >= Rank(i) - 2
                  /\ ~IsNone(O[j].KPI_PROXY)}

\* C23: KPI_PROXY_MA3 is the mean of the non-missing KPI_PROXY values of the
\* merchant's current row and up to two rows right before it, and is missing
\* when fewer than 2 of them have a value, so on each merchant's first row
C23_BaselineMA3 ==
  pc = "labelled" =>
    \A i \in Idx(O) :
      /\ Cardinality(Last3Valid(i)) < 2 <=> IsNone(O[i].KPI_PROXY_MA3)
      /\ Rank(i) = 1 => IsNone(O[i].KPI_PROXY_MA3)
      /\ ~IsNone(O[i].KPI_PROXY_MA3) =>
           RatEq(Val(O[i].KPI_PROXY_MA3),
                 Rat(SumOver([j \in Idx(O) |-> O[j].KPI_PROXY], Last3Valid(i)),
                     Cardinality(Last3Valid(i))))

\* a merchant with proxies 0, 7, 7, 10: no baseline on its first row, and
\* the baseline of its fourth row is 24/3, without the 0 of the first
C23_Witness ==
  /\ pc = "labelled"
  /\ \E i, j \in Idx(O) :
       /\ O[i].id = O[j].id
       /\ Rank(i) = 1 /\ O[i].KPI_PROXY = Some(0) /\ IsNone(O[i].KPI_PROXY_MA3)
       /\ Rank(j) = 4 /\ O[j].KPI_PROXY = Some(10) /\ O[j].KPI_PROXY_MA3 = Some(Rat(24, 3))

\* C26: a row of a merchant without a known closure date always has a
\* y_risk_any; when all its drop labels are censored it is 0, and the row
\* stays in the rows a consumer keeps by dropping missing y_risk_any
C26_NoClosureRiskNeverMissing ==
  pc = "labelled" =>
    \A i \in Idx(O) :
      (~df.has_close \/ O[i].close.t # "date") =>
        /\ ~IsNone(O[i].y_risk_any)
        /\ (\A H \in Horizons : IsNone(O[i].y_drop[H])) => O[i].y_risk_any = Some(0)
        /\ \E k \in Idx(dropna_risk(O)) : dropna_risk(O)[k] = O[i]

\* a merchant without closure date: its first row and a row without KPI
\* proxy have every drop label censored and y_risk_any 0, a row of another
\* merchant at its closure month is dropped by the consumer
C26_Witness ==
  /\ pc = "labelled"
  /\ df.has_close
  /\ \E i, j, n \in Idx(O) :
       /\ O[i].id = 2 /\ O[j].id = 2 /\ i < j
       /\ O[i].close.t # "date"
       /\ Rank(i) = 1 /\ ~IsNone(O[i].KPI_PROXY)
       /\ IsNone(O[j].KPI_PROXY)
       /\ \A H \in Horizons : IsNone(O[i].y_drop[H]) /\ IsNone(O[j].y_drop[H])
       /\ O[i].y_risk_any = Some(0) /\ O[j].y_risk_any = Some(0)
       /\ IsNone(O[n].y_risk_any)
  /\ Len(dropna_risk(O)) < Len(O)

\* C27: along the rows of a merchant with a known closure month, in month
\* order, the closure label never goes from 1 back to 0 and stays missing
\* once it is missing; at most close_horizon rows are labelled 1, none when
\* close_horizon <= 0
C27_CloseLabelShape ==
  pc = "labelled" =>
    \A i \in Idx(O) :
      (df.has_close /\ O[i].close.t = "date") =>
        /\ \A j \in Idx(O) :
             (O[j].id = O[i].id /\ O[i].month < O[j].month) =>
               /\ O[i].y_close = Some(1) => O[j].y_close # Some(0)
               /\ O[i].y_close = None => O[j].y_close = None
        /\ Cardinality({j \in Idx(O) : O[j].id = O[i].id /\ O[j].y_close = Some(1)})
             <= (IF cfg.close_horizon > 0 THEN cfg.close_horizon ELSE 0)

\* a merchant whose closure labels read 0, 1, missing in month order
C27_Witness ==
  /\ pc = "labelled"
  /\ cfg.close_horizon > 0
  /\ \E i, j, k \in Idx(O) :
       /\ O[i].id = O[j].id /\ O[j].id = O[k].id
       /\ O[i].month < O[j].month /\ O[j].month < O[k].month
       /\ O[i].y_close = Some(0) /\ O[j].y_close = Some(1) /\ O[k].y_close = None

\* C28: on a row whose baseline KPI_PROXY_MA3 is exactly 0 and whose value H
\* rows ahead exists and is not negative, the drop label of horizon H is 0,
\* not missing, for every horizon
C28_ZeroBaselineLabelZero ==
  pc = "labelled" =>
    \A i \in Idx(O) : \A H \in Horizons :
      LET future == Shift(O, [k \in Idx(O) |-> O[k].KPI_PROXY], i, H)
      IN  (/\ ~IsNone(O[i].KPI_PROXY_MA3) /\ Val(O[i].KPI_PROXY_MA3).num = 0
           /\ ~IsNone(future) /\ Val(future) >= 0)
          => O[i].y_drop[H] = Some(0)

\* a row with baseline 0 whose next value is positive (infinite change) and
\* a row with baseline 0 whose next value is 0 (undefined change)
C28_Witness ==
  /\ pc = "labelled"
  /\ \E i, j \in Idx(O) : \E H \in Horizons :
       /\ ~IsNone(O[i].KPI_PROXY_MA3) /\ Val(O[i].KPI_PROXY_MA3).num = 0
       /\ Shift(O, [k \in Idx(O) |-> O[k].KPI_PROXY], i, H) = Some(10)
       /\ O[i].y_drop[H] = Some(0)
       /\ ~IsNone(O[j].KPI_PROXY_MA3) /\ Val(O[j].KPI_PROXY_MA3).num = 0
       /\ Shift(O, [k \in Idx(O) |-> O[k].KPI_PROXY], j, H) = Some(0)
       /\ O[j].y_drop[H] = Some(0)

(***************************************************************************)
(* Properties of parse_bucket and add_bucket_features.                     *)
(***************************************************************************)
Text == strip(s.v)
NoDigit(txt) == \A i \in 1..Len(txt) : txt[i] \notin Digits
MidIs(n, d) == ~IsNone(ret.mid) /\ RatEq(Val(ret.mid), Rat(n, d))

\* the documented midpoints: text |-> <<numerator, denominator>>
Documented ==
  { <<(<<"3", "0", "-", "4", "0", "%">>), 35, 100>>,
    <<(<<"3", "0", " ", "-", " ", "4", "0", " ", "%">>), 35, 100>>,
    <<P90Over, 95, 100>>, <<P75to90, 825, 1000>>, <<P50to75, 625, 1000>>,
    <<P25to50, 375, 1000>>, <<P10to25, 175, 1000>>,
    <<P10Under, 5, 100>>, <<PBucket1, 5, 100>>,
    <<(<<"4", "5", "%">>), 45, 100>>, <<(<<"1", "2", ".", "5", "%">>), 125, 1000>> }

PhraseConstants ==
  { <<{P90Over, P90OverSp}, 95, 100>>, <<{P75to90}, 825, 1000>>, <<{P50to75}, 625, 1000>>,
    <<{P25to50}, 375, 1000>>, <<{P10to25}, 175, 1000>>,
    <<{P10Under, P10UnderSp, PBucket1}, 5, 100>> }
HasPhrase(txt, ps) == \E p \in ps : Contains(txt, p)

C8_OrdinalNeverMidpoint ==
  (pc = "parsed" /\ s.t = "str" /\ OrdinalMatch(Text)) =>
    LET rest == SubSeq(Text, RunEnd(Text, 1) + 1, Len(Text))
    IN  NoDigit(rest) => ret = Ret(Some(DigitsVal(Text, 1, RunEnd(Text, 1))), None)

\* C9: the midpoint is null or lies in [0, 1].
C9_MidpointInUnitInterval ==
  (pc = "parsed" /\ ~IsNone(ret.mid)) =>
    (0 <= Val(ret.mid).num /\ Val(ret.mid).num <= Val(ret.mid).den)

Unparseable(cell) == cell.t # "str" \/ NoDigit(cell.v)

\* C10: parse_bucket returns (null, null) for null, NaN, the empty string
\* and text without any number; add_bucket_features keeps every row and
\* gives such rows missing _ORD and _MID cells.
C10_UnparseableIsNullNull ==
  /\ (pc = "parsed" /\ Unparseable(s)) => ret = Ret(None, None)
  /\ pc = "added" =>
       /\ Len(ORD) = Len(col)
       /\ Len(MID) = Len(col)
       /\ \A i \in 1..Len(col) : Unparseable(col[i]) => (ORD[i] = None /\ MID[i] = None)

\* a column with a NaN cell and a garbage cell: two rows out, all missing
C10_Witness ==
  /\ pc = "added"
  /\ col = <<PyNaN, PyStr(<<"yo", "in">>)>>
  /\ ORD = <<None, None>>
  /\ MID = <<None, None>>

(***************************************************************************)
(* Properties of add_rolling_features.                                     *)
(***************************************************************************)
RA == res.a
RB == res.b
Rolled == pc = "rolled"

\* C11: x__PCT1 is (current - previous) / previous against the merchant's
\* preceding row, and is missing, never infinite, on every merchant's first
\* row and on every row whose prior value is zero
C11_Pct1MissingOnZeroPrior ==
  Rolled =>
    \A i \in Idx(RA) :
      LET prev == PrevRow(RA, i)
      IN  /\ prev = 0 => RA[i].PCT1 = FNaN
          /\ (prev # 0 /\ RA[prev].x = Some(0)) => RA[i].PCT1 = FNaN
          /\ (prev # 0 /\ ~IsNone(RA[prev].x) /\ RA[prev].x # Some(0) /\ ~IsNone(RA[i].x)) =>
               RA[i].PCT1 = FNum(Val(RA[i].x) - Val(RA[prev].x), Val(RA[prev].x))

\* C12: x__MA{W} and x__VOL{W} of a row depend only on the merchant's values
\* at that month and before: a panel that differs from the first only in the
\* value of a later month gives the same x__MA{W} and x__VOL{W} on the row
C12_RollingCausality ==
  Rolled =>
    \A i \in Idx(RA) :
      (RA[i].id = 2 /\ RA[i].month < inp.p) =>
        /\ RB[i].id = RA[i].id /\ RB[i].month = RA[i].month
        /\ RA[i].MA = RB[i].MA
        /\ RA[i].VOL = RB[i].VOL

\* a later value was changed and changed the later row's statistics, and an
\* earlier row of the merchant has a moving average and a volatility
C12_Witness ==
  /\ Rolled
  /\ \E i, j \in Idx(RA) :
       /\ RA[i].id = 2 /\ RA[i].month < inp.p
       /\ ~IsNone(RA[i].MA[3]) /\ ~IsNone(RA[i].VOL[3])
       /\ RA[j].id = 2 /\ RA[j].month = inp.p
       /\ RA[j].x # RB[j].x
       /\ RA[j].MA[3] # RB[j].MA[3]
       /\ RA[j].VOL[3] # RB[j].VOL[3]

\* merchant 2's rows of a panel, in row order
RECURSIVE Own(_)
Own(rows) ==
  IF rows = <<>> THEN <<>>
  ELSE (IF rows[1].id = 2 THEN <<rows[1]>> ELSE <<>>) \o Own(Tail(rows))

\* C13: the rolling statistics of a merchant are a function of that
\* merchant's own series: two panels with the same rows for the merchant, and
\* any rows for the merchants that sort before and after it, give the same
\* x__MA{W}, x__PCT1 and x__VOL{W} on the merchant's rows
C13_NeverPoolAcrossMerchants ==
  (Rolled /\ Own(sort_values(inp.a)) = Own(sort_values(inp.b))) => Own(RA) = Own(RB)

\* the two panels differ in the rows of the other merchants, one of which
\* ends right before the merchant's first row, and the merchant's first rows
\* have statistics
C13_Witness ==
  /\ Rolled
  /\ inp.p = 0
  /\ inp.a # inp.b
  /\ \E i \in Idx(RA) :
       /\ i > 1 /\ RA[i].id = 2 /\ RA[i - 1].id = 1
       /\ ~IsNone(RA[i].MA[3]) /\ IsNone(RA[i].VOL[3]) /\ RA[i].PCT1 = FNaN
       /\ i < Len(RA) /\ RA[i + 1].id = 2 /\ ~IsNone(RA[i + 1].VOL[3])

\* the position of row i of the rolled panel among the rows of its merchant
RollRank(i) == Cardinality({j \in Idx(RA) : j <= i /\ RA[j].id = RA[i].id})

\* the rows with a value among the last w rows of the merchant of row i
LastValid(i, w) ==
  {j \in Idx(RA) : /\ RA[j].id = RA[i].id
                   /\ RollRank(j) <= RollRank(i) /\ RollRank(j) > RollRank(i) - w
                   /\ ~IsNone(RA[j].x)}

\* C24: for every window W, x__MA{W} has a value as soon as the last W rows
\* of the merchant hold one value, and is that value when they hold exactly
\* one; x__VOL{W} is missing whenever they hold fewer than 2 values, so on
\* each merchant's first row; both are taken over those rows only
C24_RollingMinPeriods ==
  Rolled =>
    \A i \in Idx(RA) : \A k \in Idx(Windows) :
      LET w == Windows[k]
          valid == LastValid(i, w)
          n == Cardinality(valid)
          xs == [j \in Idx(RA) |-> RA[j].x]
      IN  /\ IsNone(RA[i].MA[w]) <=> n = 0
          /\ n = 1 => \E j \in valid : RatEq(Val(RA[i].MA[w]), Rat(Val(RA[j].x), 1))
          /\ n >= 1 => RatEq(Val(RA[i].MA[w]), Rat(SumOver(xs, valid), n))
          /\ IsNone(RA[i].VOL[w]) <=> n < 2
          /\ RollRank(i) = 1 => IsNone(RA[i].VOL[w])
          /\ n >= 2 => RatEq(Val(RA[i].VOL[w]),
                             Rat(n * SumSqOver(xs, valid) - SumOver(xs, valid) * SumOver(xs, valid),
                                 n * (n - 1)))

\* a merchant with values 7, 0, 0, 0: on its first row the averages are 7
\* and there is no volatility; on its fourth row the window of 3 has left
\* the 7 behind and the window of 6 has not
C24_Witness ==
  /\ Rolled
  /\ \E i, j \in Idx(RA) :
       /\ RA[i].id = 2 /\ RA[j].id = 2
       /\ RollRank(i) = 1 /\ RA[i].x = Some(7)
       /\ RA[i].MA[3] = Some(Rat(7, 1)) /\ IsNone(RA[i].VOL[3]) /\ IsNone(RA[i].VOL[12])
       /\ RollRank(j) = 4
       /\ RA[j].MA[3] = Some(Rat(0, 3)) /\ RA[j].MA[6] = Some(Rat(7, 4))
       /\ RA[j].VOL[3] = Some(Rat(0, 6)) /\ Val(RA[j].VOL[6]).num > 0

(***************************************************************************)
(* Properties of build_peer_zscores.                                       *)
(***************************************************************************)
\* the rows of row i's (district, zone, month) group that have a value
PeerObs(i) == {j \in PeerGroup(inp, i) : ~IsNone(inp[j].x)}

\* C14: in a group whose valid values are all identical and in a group with
\* fewer than 2 valid values every member's z-score is missing; elsewhere the
\* z-score of a valid value is taken against the mean and the deviation of
\* the valid values of its own group: the deviations of a group sum to zero
C14_DegenerateGroupMissing ==
  pc = "peer_done" =>
    \A i \in Idx(res) :
      /\ (Cardinality(PeerObs(i)) < 2 \/ \A j, k \in PeerObs(i) : inp[j].x = inp[k].x) =>
           IsNone(res[i].PEER_Z)
      /\ ~IsNone(res[i].PEER_Z) =>
           /\ Val(res[i].PEER_Z).dev.den = Cardinality(PeerObs(i))
           /\ Val(res[i].PEER_Z).var.num > 0
           /\ SumOver([j \in Idx(res) |-> IF j \in PeerObs(i) THEN Some(Val(res[j].PEER_Z).dev.num) ELSE None],
                      PeerObs(i)) = 0

\* a group of two equal values and a group of one value, in one table
C14_Witness ==
  /\ pc = "peer_done"
  /\ \E i, j \in Idx(res) :
       /\ Cardinality(PeerObs(i)) = 2 /\ inp[i].x = Some(7) /\ IsNone(res[i].PEER_Z)
       /\ Cardinality(PeerObs(j)) = 1 /\ PeerObs(j) = {j} /\ IsNone(res[j].PEER_Z)

(***************************************************************************)
(* Properties of the normalisation.                                        *)
(***************************************************************************)
\* the number a cell read from the file spells, None when it spells none
Spelled(cell) == IF cell.t = "str" THEN cell.v ELSE None
SpellsSpecial(cell) == ~IsNone(Spelled(cell)) /\ Val(Spelled(cell)) \in SPECIAL_MISSING

\* C15: after to_numeric_smart and standardize_rates no cell of the column
\* holds a number of SPECIAL_MISSING; in a rate column a sentinel is missing
\* and every other number is the number read divided by 100, so no rescaled
\* rate is a sentinel divided by 100 (a column that stays text because one
\* of its cells spells no number keeps its texts, as a non-numeric column)
C15_SentinelElimination ==
  pc = "rates_done" =>
    /\ \A i \in DOMAIN res.cells : ~isin_special(res.cells[i])
    /\ inp.rate =>
         \A i \in DOMAIN res.cells :
           LET raw == inp.column.cells[i]
           IN  /\ (SpellsSpecial(raw) \/ IsNone(Spelled(raw))) => res.cells[i] = NaNCell
               /\ (~SpellsSpecial(raw) /\ ~IsNone(Spelled(raw))) =>
                    /\ res.cells[i].t = "num"
                    /\ Val(res.cells[i].v) * 100 = Val(Spelled(raw))

\* a rate column with a sentinel, a rate and a text that is no number: the
\* column stays text in to_numeric_smart and only standardize_rates converts it
C15_Witness ==
  /\ pc = "rates_done"
  /\ inp.rate
  /\ \E i, j, k \in DOMAIN res.cells :
       /\ SpellsSpecial(inp.column.cells[i]) /\ res.cells[i] = NaNCell
       /\ inp.column.cells[j] = TextCell(Some(50500), FALSE)
       /\ res.cells[j] = NumCell(505)
       /\ inp.column.cells[k] = TextCell(None, FALSE)

(***************************************************************************)
(* Properties of the merger.                                               *)
(***************************************************************************)
Merged == pc = "merged"
KeysOf(table) == {<<table[k].id, table[k].month>> : k \in Idx(table)}
IdsOf(table) == {table[k].id : k \in Idx(table)}

\* C16: in the merged panel no two rows share (merchant, month), and within
\* a merchant the months increase strictly in row order
C16_MergedKeyUnique ==
  Merged =>
    /\ \A i, j \in Idx(res) : (res[i].id = res[j].id /\ res[i].month = res[j].month) => i = j
    /\ \A i \in Idx(res) :
         (i < Len(res) /\ res[i].id = res[i + 1].id) => res[i].month < res[i + 1].month

\* C17: a (merchant, month) pair is in the merged panel iff it is in the KPI
\* panel or in the customer panel; a pair of one panel only has the other
\* panel's columns missing; a merchant of the info table alone has no row;
\* every row of a merchant of the info table carries attributes of it
C17_MergerKeys ==
  Merged =>
    /\ KeysOf(res) = KeysOf(inp.kpi) \cup KeysOf(inp.cust)
    /\ \A i \in Idx(res) :
         LET key == <<res[i].id, res[i].month>>
         IN  /\ key \notin KeysOf(inp.cust) => IsNone(res[i].C)
             /\ key \notin KeysOf(inp.kpi) => IsNone(res[i].K)
             /\ key \in KeysOf(inp.kpi) =>
                  \E k \in Idx(inp.kpi) : inp.kpi[k].id = res[i].id /\ inp.kpi[k].month = res[i].month
                                           /\ res[i].K = inp.kpi[k].K
             /\ key \in KeysOf(inp.cust) =>
                  \E k \in Idx(inp.cust) : inp.cust[k].id = res[i].id /\ inp.cust[k].month = res[i].month
                                            /\ res[i].C = inp.cust[k].C
             /\ res[i].id \in IdsOf(inp.info) =>
                  \E k \in Idx(inp.info) : inp.info[k].id = res[i].id /\ res[i].A = inp.info[k].A
             /\ res[i].id \notin IdsOf(inp.info) => IsNone(res[i].A)
    /\ \A k \in Idx(inp.info) :
         inp.info[k].id \notin IdsOf(inp.kpi) \cup IdsOf(inp.cust) => inp.info[k].id \notin IdsOf(res)

\* a pair of the KPI panel only, a pair of the customer panel only, a
\* merchant with info and a merchant of the info table alone
C17_Witness ==
  /\ Merged
  /\ \E i, j \in Idx(res) :
       /\ IsNone(res[i].C) /\ ~IsNone(res[i].K) /\ ~IsNone(res[i].A)
       /\ IsNone(res[j].K) /\ ~IsNone(res[j].C) /\ IsNone(res[j].A)
  /\ 3 \in IdsOf(inp.info)

(***************************************************************************)
(* Properties of main.                                                     *)
(***************************************************************************)
Ended == pc \in {"done", "aborted"}
NotEnoughMonths == {"ValueError: Not enough months", "RuntimeError: Not enough months"}

\* C18: for every method, a run on a panel with fewer distinct months than
\* test_months + 3 whose ETL went through ends aborted with the error of the
\* month-count precondition, and has trained no model
C18_TooFewMonthsAborts ==
  (Ended /\ args.months < args.test_months + 3 /\ Artifacts \subseteq run.files) =>
    /\ pc = "aborted"
    /\ run.err \in {Some(e) : e \in NotEnoughMonths}
    /\ run.trained = {}

\* C20: a run ends completed with the three artifacts written, or aborted
\* with none of them written
C20_AllOrNothingArtifacts ==
  /\ pc = "done" => (IsNone(run.err) /\ Artifacts \subseteq run.files)
  /\ pc = "aborted" => (~IsNone(run.err) /\ run.files \cap Artifacts = {})

\* the stages main goes through for a method, in order
ModelStages(method) ==
  CASE method = "lgbm" -> <<"lgbm">>
    [] method = "cox" -> <<"cox">>
    [] method = "aft" -> <<"aft">>
    [] method = "all" -> <<"lgbm", "cox", "aft">>
ExpectedStages(method) == <<"extract", "transform", "load">> \o ModelStages(method)
IsPrefix(p, q) == Len(p) <= Len(q) /\ SubSeq(q, 1, Len(p)) = p

\* C21: the stages started so far are a prefix of extract, transform, load
\* and then the model stages of the method (one stage, or lgbm, cox, aft for
\* all): the ETL runs once and before every model stage, no other model
\* stage runs, and a completed run has gone through all of them
C21_StageOrdering ==
  /\ IsPrefix(run.stages, ExpectedStages(args.method))
  /\ pc = "done" => run.stages = ExpectedStages(args.method)
  /\ pc \in {"loaded", "lgbm_done", "cox_done", "done"} =>
       IsPrefix(<<"extract", "transform", "load">>, run.stages)
  /\ run.trained \subseteq Range(ModelStages(args.method))

\* a completed run of method all that trained the three models
C21_Witness ==
  /\ pc = "done"
  /\ args.method = "all"
  /\ run.trained = {"lgbm", "cox", "aft"}
  /\ run.stages = <<"extract", "transform", "load", "lgbm", "cox", "aft">>

(***************************************************************************)
(* Properties of add_rolling_features and make_labels together.            *)
(***************************************************************************)
\* how many rows of a table have the base columns b
CountRows(table, Base(_), b) == Cardinality({k \in Idx(table) : Base(table[k]) = b})
SameRows(a, b, Base(_)) ==
  /\ Len(a) = Len(b)
  /\ \A k \in Idx(a) : CountRows(a, Base, Base(a[k])) = CountRows(b, Base, Base(a[k]))
RollBase(r) == [id |-> r.id, month |-> r.month, x |-> r.x]
LabelBase(r) == [id |-> r.id, month |-> r.month, cands |-> r.cands, close |-> r.close]

\* C25: add_rolling_features and make_labels return the rows they receive,
\* each as often as received and with its base columns unchanged, whatever
\* cells are missing; make_labels raises only without a candidate column
C25_RowsPreserved ==
  /\ Rolled => (SameRows(RA, inp.a, RollBase) /\ SameRows(RB, inp.b, RollBase))
  /\ pc = "labelled" => SameRows(O, df.rows, LabelBase)
  /\ pc = "labels_raised" => df.ncand = 0

\* a panel in which merchant 2 has a single row without any KPI value next
\* to the rows of merchant 1: the row is returned with every drop label and
\* the baseline missing
C25_Witness ==
  /\ pc = "labelled"
  /\ Len(O) = 3
  /\ \E i \in Idx(O) :
       /\ O[i].id = 2
       /\ \A j \in Idx(O) : O[j].id = 2 => j = i
       /\ O[i].cands = <<None, None>>
       /\ IsNone(O[i].KPI_PROXY) /\ IsNone(O[i].KPI_PROXY_MA3)
       /\ \A H \in Horizons : IsNone(O[i].y_drop[H])

(***************************************************************************)
(* Properties of call_with_retry.                                          *)
(***************************************************************************)
\* the calls of call_gemini made so far: the failed ones and the one that
\* returned
Calls == Len(res.failed) + (IF IsNone(res.result) THEN 0 ELSE 1)

\* C29: call_with_retry calls call_gemini at most retries times; it returns
\* the reply of the first call that succeeds, right after it; it has slept
\* 2^k seconds after the k-th failure (k = 0, 1, ...) that was not the last;
\* after retries failures it re-raises the last exception without a sleep
\* after it; with retries <= 0 it calls nothing and returns None
C29_RetryBackoff ==
  /\ Calls <= (IF inp.retries > 0 THEN inp.retries ELSE 0)
  /\ \A k \in Idx(res.slept) : res.slept[k] = 2 ^ (k - 1)
  /\ pc = "retry_loop" => (Len(res.slept) = Len(res.failed) /\ IsNone(res.result) /\ IsNone(res.raised))
  /\ (pc = "retry_returned" /\ inp.retries >= 1) =>
       /\ res.result = Some(Reply(inp.prompt, Len(res.failed)))
       /\ Len(res.slept) = Len(res.failed)
       /\ IsNone(res.raised)
  /\ pc = "retry_raised" =>
       /\ inp.retries >= 1
       /\ Len(res.failed) = inp.retries
       /\ res.raised = Some(res.failed[inp.retries])
       /\ Len(res.slept) = inp.retries - 1
       /\ IsNone(res.result)
  /\ (pc # "retry_loop" /\ inp.retries <= 0) =>
       (pc = "retry_returned" /\ Calls = 0 /\ IsNone(res.result) /\ res.slept = <<>>)

\* three attempts fail with different exceptions: the waits were 1 and 2
\* seconds and the exception of the third attempt is re-raised
C29_Witness ==
  /\ pc = "retry_raised"
  /\ inp.retries = 3
  /\ res.failed = <<"RuntimeError", "RuntimeError", "ServiceUnavailable">>
  /\ res.slept = <<1, 2>>
  /\ res.raised = Some("ServiceUnavailable")

(***************************************************************************)
(* Properties of build_survival_frame_timevarying.                         *)
(***************************************************************************)
TV == res.rows

\* the frame has the rows of the panel; the rows of a merchant, in month
\* order, have start 0, 1, 2, ... and stop = start + 1; event is 1 on the
\* rows at the merchant's closure month and 0 on all others
SurvivalFrameShape ==
  /\ Len(TV) = Len(inp.rows)
  /\ \A i \in Idx(TV) :
       /\ TV[i].start = Cardinality({j \in Idx(TV) : TV[j].id = TV[i].id /\ TV[j].month < TV[i].month})
       /\ TV[i].stop = TV[i].start + 1
       /\ TV[i].event \in {0, 1}
       /\ TV[i].event = 1 <=> (TV[i].close.t = "date" /\ TV[i].close.m = TV[i].month)

\* C30: for every panel build_survival_frame_timevarying returns the frame
\* with contiguous intervals per merchant and event = 1 exactly at the
\* closure month, so that a merchant without closure date, or whose closure
\* month has no row, has no event row
C30_SurvivalIntervals ==
  pc \in {"survival_built", "survival_raised"} => (~res.raised /\ SurvivalFrameShape)

\* the same, for the panels that have the column MCT_ME_D
C30_WithClosureColumn ==
  (pc \in {"survival_built", "survival_raised"} /\ inp.has_close) => (~res.raised /\ SurvivalFrameShape)

\* a merchant closed at a month that has a row, with a later row: event 1
\* at the closure month, event 0 after it, intervals [0,1), [1,2)
C30_ClosedMerchantBuilt ==
  /\ pc = "survival_built"
  /\ \E i, j \in Idx(TV) :
       /\ TV[i].id = TV[j].id
       /\ TV[i].event = 1
       /\ TV[j].month > TV[i].month
       /\ TV[j].event = 0
       /\ TV[j].start = TV[i].start + 1

====
